---- MODULE Spec2Model ----
(***************************************************************************)
(* A model of mistletoe's DocutilsRenderer (src/mistletoe/                 *)
(* docutils_renderer.py): the depth-first walk of a token tree that builds *)
(* a docutils node tree, with its current insertion point (current_node),  *)
(* its section stack (_level_to_elem), the directive bridge (MockState's   *)
(* nested_parse / inline_text) and the propagation of exceptions.          *)
(*                                                                         *)
(* The token tree is not stored: the walk is depth first, so a token tree  *)
(* is the sequence of "handler called" / "handler returns" steps, and the  *)
(* model chooses that sequence step by step.  Tokens follow the grammar of *)
(* the parser: block tokens in a document, quote or list item, list items  *)
(* in a list, span tokens in a paragraph, heading or span container.       *)
(*                                                                         *)
(* One docutils constructor call is one node of the model; the Text child  *)
(* that docutils' TextElement(rawsource, text) makes for its text is kept  *)
(* in the node's text field.  Strings are sequences of lexemes.            *)
(*                                                                         *)
(* An exception unwinds in the step that raises it: it stops at the        *)
(* nearest call whose except clause catches it, or leaves the top-level    *)
(* render call (stack empty, exc set).  Not held in the model: the ids and *)
(* name tables of the document (note_implicit_target, set_id), footnotes,  *)
(* source lines, and match_titles, which nested_parse sets and restores.   *)
(*                                                                         *)
(* Spec renders any token tree; SpecH renders heading sequences with one   *)
(* renderer; SpecS renders headings in quotes and in the text directives   *)
(* hand to nested_parse and inline_text.                                   *)
(***************************************************************************)
EXTENDS Integers, Sequences, FiniteSets, TLC

\* ---------------------------------------------------------------- bounds
\* heading levels rendered are 1..MaxLevel
MaxLevel == 3
\* nodes (the document included) in a run of the full renderer
MaxNodes == 4
\* nodes (the document included) in a run of heading sequences
MaxHNodes == 9
\* nodes (the document included) in a run of headings, quotes and directives
MaxSNodes == 6
MaxANodes == 4
MaxDNodes == 5
MaxLNodes == 6
MaxPNodes == 5
MaxBNodes == 4
MaxTNodes == 7
MaxINodes == 7

VARIABLES
    tree,   \* the docutils nodes made so far; tree[n] is node n, node 1 the document
    rs,     \* the renderers in existence, outermost first; the last one is running
    stack,  \* the handler calls in progress, outermost first
    exc     \* the exception being raised, "none" when there is none

vars == <<tree, rs, stack, exc>>

\* the node made by new_document()
Document == 1

\* ------------------------------------------------------------ the nodes
EmptyText == <<>>

\* a freshly constructed node: no parent, no children; attr holds the
\* attributes set on it as <<name, value>> pairs, ref the node its refid or
\* backref names (0 when none)
NodeA(kind, level, text, attr) ==
    [kind |-> kind, parent |-> 0, children |-> <<>>, level |-> level,
     text |-> text, names |-> <<>>, attr |-> attr, ref |-> 0]

Node(kind, level, text) == NodeA(kind, level, text, {})

\* docutils Element.append: the child is added last and its parent is set
AppendChild(t, p, n) ==
    [t EXCEPT ![p].children = Append(@, n), ![n].parent = p]

\* Element.__iadd__ / extend: append each node of a list in order
RECURSIVE Extend(_, _, _)
Extend(t, p, ns) ==
    IF ns = <<>> THEN t
    ELSE Extend(AppendChild(t, p, Head(ns)), p, Tail(ns))

Max(S) == CHOOSE x \in S : \A y \in S : y <= x

\* n is d or an ancestor of d, following parent links
RECURSIVE IsUnder(_, _, _)
IsUnder(t, d, n) ==
    IF d = n THEN TRUE
    ELSE IF d = 0 \/ t[d].parent = 0 THEN FALSE
    ELSE IsUnder(t, t[d].parent, n)

\* n is reachable from the document through child links
RECURSIVE Reachable(_, _, _)
Reachable(t, from, n) ==
    \/ from = n
    \/ \E i \in 1..Len(t[from].children) : Reachable(t, t[from].children[i], n)

\* Node.astext: the text of a node followed by the text of its children
RECURSIVE AsText(_, _)
RECURSIVE AsTextOf(_, _)
AsTextOf(t, ns) ==
    IF ns = <<>> THEN <<>> ELSE AsText(t, Head(ns)) \o AsTextOf(t, Tail(ns))
AsText(t, n) == t[n].text \o AsTextOf(t, t[n].children)

\* str.lower on one lexeme
Lower(c) == IF c = "Jane" THEN "jane" ELSE IF c = "A" THEN "a" ELSE c

\* nodes.fully_normalize_name: ' '.join(name.lower().split())
RECURSIVE SplitLower(_, _)
SplitLower(s, sep) ==
    IF s = <<>> THEN <<>>
    ELSE IF Head(s) = " " THEN SplitLower(Tail(s), TRUE)
    ELSE (IF sep THEN <<" ">> ELSE <<>>) \o <<Lower(Head(s))>> \o SplitLower(Tail(s), FALSE)

FullyNormalizeName(s) ==
    LET r == SplitLower(s, FALSE)
    IN  IF r # <<>> /\ Head(r) = " " THEN Tail(r) ELSE r

\* -------------------------------------------------------- the renderers
\* DocutilsRenderer.__init__: the insertion point is current_node or the
\* document, the section stack holds the document at level 0; scope tells
\* whether the renderer has been entered ("with renderer:") and exited
NewRenderer(current_node, config) ==
    [current_node |-> IF current_node = 0 THEN Document ELSE current_node,
     level_to_elem |-> [k \in {0} |-> Document],
     config |-> config,
     scope |-> "new"]

\* the with statement around the use of a renderer: __enter__ at its start,
\* __exit__ when its body is left, by a return or by an exception
Enter(r) == [r EXCEPT !.scope = "entered"]
Exit(r) == [r EXCEPT !.scope = "exited"]

\* the running renderer and its insertion point
Top == Len(rs)
cur == rs[Top].current_node

\* the fields of a directive instance: its name, its arguments, the kind of
\* value its options are and its content lines
NoInstance == [name |-> "", arguments |-> <<>>, options |-> "empty", content |-> <<>>]

\* a handler call in progress: op the handler, ctx the tokens it renders
\* next, saved its local current_node, node the node it made, level the
\* heading's level; for a running directive, inst is the instance, res the
\* nodes it has made for its result, got and texts whether inline_text has
\* returned and what, before the number of children the insertion point
\* had when render_directive was called; for MystParser.parse, config is
\* the parser's self.config
Frame(op, ctx, saved, node, level) ==
    [op |-> op, ctx |-> ctx, saved |-> saved, node |-> node, level |-> level,
     res |-> <<>>, inst |-> NoInstance, got |-> FALSE, texts |-> <<>>, before |-> 0,
     config |-> {}]

TopFrame == stack[Len(stack)]
Push(f) == Append(stack, f)
Pop == SubSeq(stack, 1, Len(stack) - 1)
ReplaceTop(f) == [stack EXCEPT ![Len(stack)] = f]

Running == exc = "none" /\ stack # <<>>
In(ctx) == Running /\ TopFrame.ctx = ctx

\* ----------------------------------------------------------- exceptions
\* a try around directive_instance.run() that catches every exception
CatchesEverything(frame, e) == frame.op = "run"

\* the except clauses: only the try around directive_instance.run() handles
\* an exception, and only DirectiveError (AttributeError is raised again)
Catches(frame, e) == frame.op = "run" /\ e = "DirectiveError"

\* the calls left when exception e has passed every handler that does not
\* catch it
RECURSIVE UnwindTo(_, _)
UnwindTo(st, e) ==
    IF st = <<>> THEN <<>>
    ELSE IF Catches(st[Len(st)], e) THEN st
    ELSE UnwindTo(SubSeq(st, 1, Len(st) - 1), e)

\* raise e: it propagates to the nearest handler that catches it, or out of
\* the top-level render call; the renderers made by the nested_parse and
\* inline_text calls it leaves are gone, and the with statement of
\* MystParser.parse, when the exception leaves it, exits its renderer
Raise(e) ==
    /\ exc' = e
    /\ stack' = UnwindTo(stack, e)
    /\ rs' = LET left == SubSeq(rs, 1, 1 + Cardinality({i \in 1..Len(stack') :
                            stack'[i].op \in {"nested_parse", "inline_text"}}))
             IN  IF stack' = <<>> /\ stack[1].op = "parse"
                 THEN [left EXCEPT ![1] = Exit(@)]
                 ELSE left

\* ------------------------------------------------------------- sections
\* DocutilsRenderer._is_section_level
IsSectionLevel(l2e, level, section) ==
    level \in DOMAIN l2e /\ l2e[level] = section

\* _add_section with "level >= section_level" for "level > section_level"
AddSectionSameLevelParent(t, l2e, section, level) ==
    LET parent_level == Max({k \in DOMAIN l2e : level >= k})
        parent == l2e[parent_level]
        set == [k \in DOMAIN l2e \cup {level} |->
                    IF k = level THEN section ELSE l2e[k]]
    IN  [tree |-> AppendChild(t, parent, section),
         l2e  |-> [k \in {j \in DOMAIN set : j <= level} |-> set[k]]]

\* _add_section without the pruning of the deeper levels
AddSectionNoPrune(t, l2e, section, level) ==
    LET parent_level == Max({k \in DOMAIN l2e : level > k})
        parent == l2e[parent_level]
    IN  [tree |-> AppendChild(t, parent, section),
         l2e  |-> [k \in DOMAIN l2e \cup {level} |->
                    IF k = level THEN section ELSE l2e[k]]]

\* _add_section with min for max: the parent is always the document
AddSectionMin(t, l2e, section, level) ==
    LET parent == l2e[0]
        set == [k \in DOMAIN l2e \cup {level} |->
                    IF k = level THEN section ELSE l2e[k]]
    IN  [tree |-> AppendChild(t, parent, section),
         l2e  |-> [k \in {j \in DOMAIN set : j <= level} |-> set[k]]]

\* DocutilsRenderer._add_section: the new tree and the new section stack
AddSection(t, l2e, section, level) ==
    LET parent_level == Max({k \in DOMAIN l2e : level > k})
        parent == l2e[parent_level]
        set == [k \in DOMAIN l2e \cup {level} |->
                    IF k = level THEN section ELSE l2e[k]]
    IN  [tree |-> AppendChild(t, parent, section),
         l2e  |-> [k \in {j \in DOMAIN set : j <= level} |-> set[k]]]

\* render_heading, lines 365-367: entering the handler, the insertion point
\* moves to the parent of a section that is registered at the heading's level
RenderHeading(level) ==
    /\ In("block")
    /\ rs' = [rs EXCEPT ![Top].current_node =
                IF tree[cur].kind = "section"
                   /\ IsSectionLevel(rs[Top].level_to_elem, level, cur)
                THEN tree[cur].parent ELSE cur]
    /\ stack' = Push(Frame("heading", "new", 0, 0, level))
    /\ UNCHANGED <<tree, exc>>

\* render_heading, lines 369-378: the title and the section are made, the
\* section is added to the tree and the insertion point becomes the title
HeadingAddSection ==
    /\ In("new")
    /\ LET title == Len(tree) + 1
           section == Len(tree) + 2
           level == TopFrame.level
           t1 == tree \o <<Node("title", 0, EmptyText), Node("section", level, EmptyText)>>
           r == AddSection(AppendChild(t1, section, title),
                           rs[Top].level_to_elem, section, level)
       IN  /\ tree' = r.tree
           /\ rs' = [rs EXCEPT ![Top].level_to_elem = r.l2e,
                               ![Top].current_node = title]
           /\ stack' = ReplaceTop(Frame("heading", "inline", 0, title, level))
    /\ UNCHANGED exc

\* render_heading leaving out a name that a section of the tree has already
ReturnHeadingDeduplicating ==
    /\ In("inline")
    /\ TopFrame.op = "heading"
    /\ IF tree[cur].kind = "title"
       THEN LET section == tree[cur].parent
                name == FullyNormalizeName(AsText(tree, cur))
                known == \E n \in 1..Len(tree) :
                            \E i \in 1..Len(tree[n].names) : tree[n].names[i] = name
            IN  /\ tree' = [tree EXCEPT ![section].names =
                                            IF known THEN @ ELSE Append(@, name)]
                /\ rs' = [rs EXCEPT ![Top].current_node = section]
                /\ stack' = Pop
                /\ UNCHANGED exc
       ELSE /\ Raise("AssertionError")
            /\ UNCHANGED tree

\* render_heading, lines 381-389: after the children, the insertion point
\* must be a title; its section gets the normalized name and becomes the
\* insertion point
ReturnHeading ==
    /\ In("inline")
    /\ TopFrame.op = "heading"
    /\ IF tree[cur].kind = "title"
       THEN LET section == tree[cur].parent
                name == FullyNormalizeName(AsText(tree, cur))
            IN  /\ tree' = [tree EXCEPT ![section].names = Append(@, name)]
                /\ rs' = [rs EXCEPT ![Top].current_node = section]
                /\ stack' = Pop
                /\ UNCHANGED exc
       ELSE /\ Raise("AssertionError")
            /\ UNCHANGED tree

\* ------------------------------------------------------ leaf handlers
\* the content of RawText tokens
Contents == {<<"john", " ", "&", " ", "Jane">>, <<"A">>}

\* a handler that makes one node and appends it to the insertion point
AppendLeaf(node) ==
    /\ tree' = AppendChild(Append(tree, node), cur, Len(tree) + 1)
    /\ UNCHANGED <<rs, stack, exc>>

\* render_thematic_break
RenderThematicBreak ==
    /\ In("block")
    /\ AppendLeaf(Node("transition", 0, EmptyText))

\* html.escape on one lexeme
Escape(c) == IF c = "&" THEN "&amp;" ELSE c

\* render_raw_text with the content escaped as the HTML renderer does
RenderRawTextEscaped(content) ==
    /\ In("inline")
    /\ AppendLeaf(Node("Text", 0, [i \in 1..Len(content) |-> Escape(content[i])]))

\* render_raw_text
RenderRawText(content) ==
    /\ In("inline")
    /\ AppendLeaf(Node("Text", 0, content))

\* render_escape_sequence: the text is the content of the token's only child
RenderEscapeSequence ==
    /\ In("inline")
    /\ AppendLeaf(Node("Text", 0, <<"&">>))

\* render_line_break
RenderLineBreak ==
    /\ In("inline")
    /\ AppendLeaf(NodeA("raw", 0, <<"<br />">>, {<<"format", <<"html">>>>}))

\* render_inline_code
RenderInlineCode ==
    /\ In("inline")
    /\ AppendLeaf(Node("literal", 0, <<"A">>))

\* render_math: $$...$$ is a math block, $...$ inline math; the delimiters
\* are cut off the content
RenderMath(content) ==
    /\ In("inline")
    /\ IF Head(content) = "$$"
       THEN AppendLeaf(NodeA("math_block", 0, SubSeq(content, 2, Len(content) - 1),
                             {<<"nowrap", <<"False">>>>, <<"number", <<"None">>>>}))
       ELSE AppendLeaf(Node("math", 0, SubSeq(content, 2, Len(content) - 1)))

\* ------------------------------------------------- container handlers
\* a container handler without its self.current_node.append(node)
OpenContainerNoAppend(op, ctx, node) ==
    LET n == Len(tree) + 1
    IN  /\ tree' = Append(tree, node)
        /\ stack' = Push(Frame(op, ctx, cur, n, 0))
        /\ rs' = [rs EXCEPT ![Top].current_node = n]
        /\ UNCHANGED exc

\* the handlers that append a node, save the insertion point, move it to
\* the new node and render the children: lines 271-278, 290-313, 441-489
OpenContainer(op, ctx, node) ==
    LET n == Len(tree) + 1
    IN  /\ tree' = AppendChild(Append(tree, node), cur, n)
        /\ stack' = Push(Frame(op, ctx, cur, n, 0))
        /\ rs' = [rs EXCEPT ![Top].current_node = n]
        /\ UNCHANGED exc

\* render_paragraph
RenderParagraph ==
    In("block") /\ OpenContainer("paragraph", "inline", Node("paragraph", 0, EmptyText))

\* render_quote
RenderQuote ==
    In("block") /\ OpenContainer("quote", "block", Node("block_quote", 0, EmptyText))

\* render_list: an enumerated list when the token has a start, else a bullet list
RenderList(start) ==
    In("block") /\ OpenContainer("list", "items",
        Node(IF start # 0 THEN "enumerated_list" ELSE "bullet_list", 0, EmptyText))

\* render_list_item
RenderListItem ==
    In("items") /\ OpenContainer("list_item", "block", Node("list_item", 0, EmptyText))

\* render_strong
RenderStrong ==
    In("inline") /\ OpenContainer("strong", "inline", Node("strong", 0, EmptyText))

\* render_emphasis
RenderEmphasis ==
    In("inline") /\ OpenContainer("emphasis", "inline", Node("emphasis", 0, EmptyText))

\* render_image
RenderImage ==
    In("inline") /\ OpenContainer("image", "inline",
        NodeA("image", 0, EmptyText, {<<"uri", <<"src">>>>, <<"alt", <<>>>>}))

\* the link destinations: scheme ":" rest, with "#" before a fragment
Targets == {<<"http", ":", "//example.com">>, <<"./page">>, <<"./page", "#", "frag">>}

\* urlparse(destination).scheme
UrlScheme(d) == IF Len(d) >= 2 /\ d[2] = ":" THEN d[1] ELSE ""

\* urlparse(destination).fragment
UrlFragment(d) ==
    IF \E i \in 1..Len(d) : d[i] = "#"
    THEN LET i == CHOOSE j \in 1..Len(d) :
                    d[j] = "#" /\ \A k \in 1..(j - 1) : d[k] # "#"
         IN  SubSeq(d, i + 1, Len(d))
    ELSE <<>>

\* render_link taking every scheme as known, whatever the config
IsCrossReferenceAnyScheme(config, destination) ==
    UrlFragment(destination) = <<>> /\ UrlScheme(destination) = ""

\* render_link, lines 410-420: the link is a cross reference when it has no
\* fragment and no known scheme
IsCrossReference(config, destination) ==
    LET scheme_known == IF config # {} THEN UrlScheme(destination) \in config
                        ELSE UrlScheme(destination) # ""
    IN  UrlFragment(destination) = <<>> /\ ~scheme_known

\* render_link: the reference, wrapped in a pending_xref when it is a cross
\* reference, is appended; the children are rendered into the reference
RenderLink(destination, title) ==
    /\ In("inline")
    /\ LET tattr == IF title # <<>> THEN {<<"title", title>>} ELSE {}
           ref_node == NodeA("reference", 0, EmptyText, {<<"refuri", destination>>} \cup tattr)
           wrap_node == NodeA("pending_xref", 0, EmptyText,
                              {<<"reftarget", destination>>, <<"reftype", <<"any">>>>} \cup tattr)
           ref == Len(tree) + 1
           wrap == Len(tree) + 2
       IN  /\ IF IsCrossReference(rs[Top].config, destination)
              THEN tree' = AppendChild(AppendChild(tree \o <<ref_node, wrap_node>>, wrap, ref),
                                       cur, wrap)
              ELSE tree' = AppendChild(Append(tree, ref_node), cur, ref)
           /\ stack' = Push(Frame("link", "inline", cur, ref, 0))
           /\ rs' = [rs EXCEPT ![Top].current_node = ref]
           /\ UNCHANGED exc

Containers == {"paragraph", "quote", "list", "list_item", "strong", "emphasis",
               "image", "link"}

\* a container handler that does not restore the insertion point
KeepInsertionPoint(r, saved) == r

\* the last line of every container handler: self.current_node = current_node
RestoreInsertionPoint(r, saved) == [r EXCEPT !.current_node = saved]

\* a container handler returns after its children
ReturnContainer ==
    /\ Running
    /\ TopFrame.op \in Containers
    /\ rs' = [rs EXCEPT ![Top] = RestoreInsertionPoint(@, TopFrame.saved)]
    /\ stack' = Pop
    /\ UNCHANGED <<tree, exc>>

\* render_document returns: the render call of the top-level renderer ends
ReturnDocument ==
    /\ Running
    /\ TopFrame.op = "document"
    /\ stack' = Pop
    /\ UNCHANGED <<tree, rs, exc>>

\* MystParser.parse, lines 185-186: the render call has returned, the with
\* statement exits the renderer and parse returns
ReturnParse ==
    /\ Running
    /\ TopFrame.op = "parse"
    /\ stack' = Pop
    /\ rs' = [rs EXCEPT ![1] = Exit(@)]
    /\ UNCHANGED <<tree, exc>>

\* ---------------------------------------------------- unimplemented
\* render_strikethrough, render_table, render_table_row, render_table_cell,
\* render_auto_link
Unimplemented == [table |-> "block", table_row |-> "block", table_cell |-> "block",
                  auto_link |-> "inline", strikethrough |-> "inline"]

RenderUnimplemented(kind) ==
    /\ In(Unimplemented[kind])
    /\ Raise("NotImplementedError")
    /\ UNCHANGED tree

\* ----------------------------------------------------- block code
\* the language of BlockCode tokens
Languages == {<<>>, <<"python">>, <<"{", "note", "}">>, <<"{", "image", "}">>,
              <<"{", "code", "}">>, <<"{", "nosuch", "}">>}

\* a directive marker recognised by its opening brace alone
IsDirectiveByStart(language) ==
    /\ language # <<>>
    /\ Head(language) = "{"

\* render_block_code, line 332: the language is a directive marker
IsDirective(language) ==
    /\ language # <<>>
    /\ Head(language) = "{"
    /\ language[Len(language)] = "}"

\* render_block_code, lines 334-336: a literal block of the code
RenderBlockCode(language, content) ==
    /\ In("block")
    /\ ~IsDirective(language)
    /\ AppendLeaf(NodeA("literal_block", 0, content, {<<"language", language>>}))

\* ------------------------------------------------------------ directives
\* the directive classes of the registry (docutils' note, image and code):
\* required_arguments, optional_arguments, final_argument_whitespace
Registry ==
    [note  |-> [required |-> 0, optional |-> 0, final_argument_whitespace |-> TRUE],
     image |-> [required |-> 1, optional |-> 0, final_argument_whitespace |-> TRUE],
     code  |-> [required |-> 0, optional |-> 1, final_argument_whitespace |-> FALSE]]

\* directives.directive(name, ...): is there a class of this name
Resolves(name) == Len(name) = 1 /\ name[1] \in DOMAIN Registry

\* the argument text of a directive, as its whitespace separated words
ArgTexts == {<<>>, <<"a">>, <<"a", "b">>}

\* str.split(None, maxsplit) on words: at most maxsplit splits, the rest
\* stays one string; a negative maxsplit is no limit
SplitMax(words, maxsplit) ==
    IF maxsplit < 0 \/ Len(words) <= maxsplit
    THEN [i \in 1..Len(words) |-> <<words[i]>>]
    ELSE [i \in 1..(maxsplit + 1) |->
            IF i <= maxsplit THEN <<words[i]>> ELSE SubSeq(words, i, Len(words))]

\* the RuntimeErrors of parse_directive_arguments
TooFew == "RuntimeError: argument(s) required"
TooMany == "RuntimeError: maximum argument(s) allowed"

\* parse_directive_arguments without the check of the required arguments
ParseDirectiveArgumentsNoMinimum(directive, arg_text) ==
    LET required == directive.required
        optional == directive.optional
        arguments == SplitMax(arg_text, -1)
    IN  IF Len(arguments) > required + optional
        THEN IF directive.final_argument_whitespace
             THEN [ok |-> TRUE, arguments |-> SplitMax(arg_text, required + optional - 1),
                   error |-> "none"]
             ELSE [ok |-> FALSE, arguments |-> <<>>, error |-> TooMany]
        ELSE [ok |-> TRUE, arguments |-> arguments, error |-> "none"]

\* DocutilsRenderer.parse_directive_arguments: ok is FALSE when it raises
\* RuntimeError, error is then the exception
ParseDirectiveArguments(directive, arg_text) ==
    LET required == directive.required
        optional == directive.optional
        arguments == SplitMax(arg_text, -1)
    IN  IF Len(arguments) < required
        THEN [ok |-> FALSE, arguments |-> <<>>, error |-> TooFew]
        ELSE IF Len(arguments) > required + optional
        THEN IF directive.final_argument_whitespace
             THEN [ok |-> TRUE, arguments |-> SplitMax(arg_text, required + optional - 1),
                   error |-> "none"]
             ELSE [ok |-> FALSE, arguments |-> <<>>, error |-> TooMany]
        ELSE [ok |-> TRUE, arguments |-> arguments, error |-> "none"]

\* the content of a directive's code block, as its lines; a line "---"
\* is a front-matter fence
DirectiveContents ==
    {<<"body">>,
     <<"---", "a: 1", "---", "body">>,
     <<"---", "a: 1">>,
     <<"---", "a: 1", "---">>,
     <<"---", "---", "body">>,
     <<"---", "text", "---", "body">>,
     <<"---", "[a", "---", "body">>,
     <<"---", "a: b: c", "---", "body">>}

\* render_directive, line 533: content.startswith("---")
HasOptionsBlock(content) == content # <<>> /\ Head(content) = "---"

\* render_directive, lines 534-542: the lines after the first one are cut at
\* the next fence into the options block and the content; the content
\* starts with what follows the dashes on the fence's line, an empty line
\* here, unless the fence is the last line; without a second fence all the
\* lines are the options block
SplitOptions(content) ==
    LET rest == Tail(content)
    IN  IF \E i \in 1..Len(rest) : rest[i] = "---"
        THEN LET i == CHOOSE j \in 1..Len(rest) :
                        rest[j] = "---" /\ \A k \in 1..(j - 1) : rest[k] # "---"
             IN  [yaml_block |-> SubSeq(rest, 1, i - 1),
                  content |-> IF i = Len(rest) THEN <<>>
                              ELSE <<"">> \o SubSeq(rest, i + 1, Len(rest))]
        ELSE [yaml_block |-> rest, content |-> <<>>]

\* yaml.safe_load on an options block: the kind of value it returns ("null"
\* for an empty block, "mapping", "scalar" for a plain string), or the
\* exception it raises: yaml.parser.ParserError for a flow sequence that is
\* not closed, yaml.scanner.ScannerError for a mapping value inside a value
YamlOutcomes == {"null", "mapping", "scalar", "ParserError", "ScannerError"}

SafeLoad(yaml_block) ==
    IF yaml_block = <<>> THEN "null"
    ELSE IF yaml_block[1] = "a: 1" THEN "mapping"
    ELSE IF yaml_block[1] = "[a" THEN "ParserError"
    ELSE IF yaml_block[1] = "a: b: c" THEN "ScannerError"
    ELSE "scalar"

\* render_directive, lines 532-547: the options and the content of the
\* directive; options is the kind of value of the options ("empty" for {}),
\* error the exception that safe_load raised and that is not handled
ReadOptions(content) ==
    IF ~HasOptionsBlock(content)
    THEN [options |-> "empty", content |-> content, error |-> "none"]
    ELSE LET split == SplitOptions(content)
             loaded == SafeLoad(split.yaml_block)
         IN  [options |-> IF loaded \in {"null", "ParserError"} THEN "empty" ELSE loaded,
              content |-> split.content,
              error |-> IF loaded = "ScannerError" THEN "ScannerError" ELSE "none"]

\* an unknown directive raises
UnknownDirectiveRaises(messages) ==
    /\ Raise("KeyError")
    /\ UNCHANGED tree

\* render_directive, lines 554-557: the messages of the registry for an
\* unknown directive are appended to the insertion point
UnknownDirective(messages) ==
    /\ UNCHANGED <<rs, stack, exc>>
    /\ tree' = Extend(tree \o [i \in 1..messages |->
                                Node("system_message", 0, <<"msg", ToString(i)>>)],
                      cur, [i \in 1..messages |-> Len(tree) + i])

\* render_directive, lines 530-584: the options are read, the directive is
\* resolved (an unknown one leaves the registry's messages in the tree), the
\* arguments are parsed and the directive is instantiated; it then runs
RenderDirective(language, arg_text, content, messages) ==
    /\ In("block")
    /\ IsDirective(language)
    /\ LET name == SubSeq(language, 2, Len(language) - 1)
           read == ReadOptions(content)
       IN  IF read.error # "none"
           THEN /\ Raise(read.error)
                /\ UNCHANGED tree
           ELSE IF ~Resolves(name)
           THEN UnknownDirective(messages)
           ELSE LET parsed == ParseDirectiveArguments(Registry[name[1]], arg_text)
                IN  IF ~parsed.ok
                    THEN /\ Raise(parsed.error)
                         /\ UNCHANGED tree
                    ELSE /\ stack' = Push([Frame("run", "run", 0, 0, 0) EXCEPT
                                !.inst = [name |-> name[1], arguments |-> parsed.arguments,
                                          options |-> read.options, content |-> read.content],
                                !.before = Len(tree[cur].children)])
                         /\ UNCHANGED <<tree, rs, exc>>

\* MockState.nested_parse, called by the running directive with a node it
\* has made for its result: a new renderer, with that node as insertion
\* point, renders the block
NestedParse ==
    /\ In("run")
    /\ LET node == Len(tree) + 1
       IN  /\ tree' = Append(tree, Node("admonition", 0, EmptyText))
           /\ rs' = Append(rs, NewRenderer(node, {}))
           /\ stack' = Append(ReplaceTop([TopFrame EXCEPT !.res = Append(@, node)]),
                              Frame("nested_parse", "block", 0, node, 0))
    /\ UNCHANGED exc

\* MockState.nested_parse returns
ReturnNestedParse ==
    /\ Running
    /\ TopFrame.op = "nested_parse"
    /\ stack' = Pop
    /\ rs' = SubSeq(rs, 1, Len(rs) - 1)
    /\ UNCHANGED <<tree, exc>>

\* MockState.inline_text, called by the running directive: a new renderer,
\* with a new paragraph as insertion point, renders the text
InlineText ==
    /\ In("run")
    /\ LET paragraph == Len(tree) + 1
       IN  /\ tree' = Append(tree, Node("paragraph", 0, EmptyText))
           /\ rs' = Append(rs, NewRenderer(paragraph, {}))
           /\ stack' = Push(Frame("inline_text", "block", 0, paragraph, 0))
    /\ UNCHANGED exc

\* MockState.inline_text, lines 676-680: the nodes it returns
TextNodes(t, paragraph) ==
    IF t[paragraph].children # <<>>
    THEN t[t[paragraph].children[1]].children
    ELSE <<>>

\* MockState.inline_text returns its nodes to the running directive
ReturnInlineText ==
    /\ Running
    /\ TopFrame.op = "inline_text"
    /\ stack' = [Pop EXCEPT ![Len(stack) - 1].got = TRUE,
                            ![Len(stack) - 1].texts = TextNodes(tree, TopFrame.node)]
    /\ rs' = SubSeq(rs, 1, Len(rs) - 1)
    /\ UNCHANGED <<tree, exc>>

\* the running directive makes a title of the nodes inline_text returned,
\* nodes.title(text, '', *textnodes), as docutils' admonition does, for its
\* result
RunMakesTitle ==
    /\ In("run")
    /\ TopFrame.got
    /\ LET title == Len(tree) + 1
       IN  /\ tree' = Extend(Append(tree, Node("title", 0, EmptyText)), title, TopFrame.texts)
           /\ stack' = ReplaceTop([TopFrame EXCEPT !.res = Append(@, title),
                                                   !.got = FALSE, !.texts = <<>>])
    /\ UNCHANGED <<rs, exc>>

\* render_directive, lines 597-606: run has returned a list of nodes, which
\* is appended to the insertion point
RunReturns ==
    /\ In("run")
    /\ tree' = Extend(tree, cur, TopFrame.res)
    /\ stack' = Pop
    /\ UNCHANGED <<rs, exc>>

\* render_directive, lines 597-605: run has returned something that is not
\* a list of nodes: the nodes it has made followed by an object that is not
\* a node, or no list at all
RunReturnsInvalid ==
    /\ In("run")
    /\ Raise("AssertionError")
    /\ UNCHANGED tree

\* directive_instance.run() raises
RunRaises(e) ==
    /\ In("run")
    /\ Raise(e)
    /\ UNCHANGED tree

\* render_directive, lines 588-593 and 597-606: a DirectiveError becomes a
\* system message holding a literal block of the content, which is appended
\* to the insertion point
HandleDirectiveError ==
    /\ exc # "none"
    /\ stack # <<>>
    /\ LET msg_node == Len(tree) + 1
           literal == Len(tree) + 2
           t1 == tree \o <<Node("system_message", 0, EmptyText),
                           Node("literal_block", 0, TopFrame.inst.content)>>
       IN  tree' = Extend(AppendChild(t1, msg_node, literal), cur, <<msg_node>>)
    /\ exc' = "none"
    /\ stack' = Pop
    /\ UNCHANGED rs

\* ------------------------------------------------------------------ roles
\* render_role without the back reference of MockInliner.problematic
RenderRoleNoBackref(known) ==
    /\ In("inline")
    /\ IF known
       THEN AppendLeaf(Node("role", 0, <<"A">>))
       ELSE LET message == Len(tree) + 1
                problematic == Len(tree) + 2
                t1 == tree \o <<Node("system_message", 0, EmptyText),
                                [Node("problematic", 0, <<":", "name", ":", "'", "A", "'">>)
                                    EXCEPT !.ref = message]>>
            IN  /\ tree' = AppendChild(t1, cur, problematic)
                /\ UNCHANGED <<rs, stack, exc>>

\* render_role: a known role's nodes are appended to the insertion point;
\* an unknown role gives an error message and a problematic node that
\* refer to each other, the latter appended to the insertion point (the
\* lexeme "'" stands for the backquote of the raw source)
RenderRole(known) ==
    /\ In("inline")
    /\ IF known
       THEN AppendLeaf(Node("role", 0, <<"A">>))
       ELSE LET message == Len(tree) + 1
                problematic == Len(tree) + 2
                t1 == tree \o <<[Node("system_message", 0, EmptyText) EXCEPT !.ref = problematic],
                                [Node("problematic", 0, <<":", "name", ":", "'", "A", "'">>)
                                    EXCEPT !.ref = message]>>
            IN  /\ tree' = AppendChild(t1, cur, problematic)
                /\ UNCHANGED <<rs, stack, exc>>

\* ------------------------------------------------------- specifications
\* a renderer made as in the tests, DocutilsRenderer(), about to render the
\* children of a Document token
Init ==
    /\ tree = <<Node("document", 0, EmptyText)>>
    /\ rs = <<Enter(NewRenderer(0, {}))>>
    /\ stack = <<Frame("document", "block", 0, 0, 0)>>
    /\ exc = "none"

\* heading sequences rendered by one renderer
NextH ==
    \/ \E level \in 1..MaxLevel : Len(tree) + 2 <= MaxHNodes /\ RenderHeading(level)
    \/ HeadingAddSection
    \/ ReturnHeading
    \/ Len(tree) + 1 <= MaxHNodes /\ RenderThematicBreak

SpecH == Init /\ [][NextH]_vars

\* headings in quotes and in the text a directive hands to nested_parse
\* or inline_text
NextS ==
    \/ \E level \in 1..MaxLevel : Len(tree) + 2 <= MaxSNodes /\ RenderHeading(level)
    \/ HeadingAddSection
    \/ ReturnHeading
    \/ Len(tree) + 1 <= MaxSNodes /\ RenderQuote
    \/ ReturnContainer
    \/ RenderDirective(<<"{", "note", "}">>, <<>>, <<"body">>, 0)
    \/ Len(tree) + 1 <= MaxSNodes /\ NestedParse
    \/ ReturnNestedParse
    \/ Len(tree) + 1 <= MaxSNodes /\ InlineText
    \/ ReturnInlineText
    \/ RunReturns

SpecS == Init /\ [][NextS]_vars

\* the Link tokens rendered: <<target, title>>
LinkTokens == (Targets \X {<<>>}) \cup {<<(<<"./page">>), (<<"t">>)>>}

\* the directive tokens rendered: <<language, arguments, content, messages
\* of the registry for an unknown name>>
DirectiveTokens ==
    {<<(<<"{", "note", "}">>), (<<>>), (<<"body">>), 0>>,
     <<(<<"{", "image", "}">>), (<<>>), (<<"body">>), 0>>,
     <<(<<"{", "code", "}">>), (<<"a", "b">>), (<<"body">>), 0>>,
     <<(<<"{", "nosuch", "}">>), (<<>>), (<<"body">>), 0>>,
     <<(<<"{", "nosuch", "}">>), (<<>>), (<<"body">>), 1>>,
     <<(<<"{", "note", "}">>), (<<>>), (<<"---", "a: b: c", "---", "body">>), 0>>}

\* is there room for n more nodes
Room(n) == Len(tree) + n <= MaxNodes

\* the renderer rendering any token tree
Next ==
    \/ \E level \in 1..MaxLevel : Room(2) /\ RenderHeading(level)
    \/ HeadingAddSection
    \/ ReturnHeading
    \/ Room(1) /\ RenderThematicBreak
    \/ \E content \in Contents : Room(1) /\ RenderRawText(content)
    \/ Room(1) /\ RenderEscapeSequence
    \/ Room(1) /\ RenderLineBreak
    \/ Room(1) /\ RenderInlineCode
    \/ \E content \in {<<"$$", "A", "$$">>, <<"$", "A", "$">>} : Room(1) /\ RenderMath(content)
    \/ Room(1) /\ RenderParagraph
    \/ Room(1) /\ RenderQuote
    \/ \E start \in {0, 1} : Room(1) /\ RenderList(start)
    \/ Room(1) /\ RenderListItem
    \/ Room(1) /\ RenderStrong
    \/ Room(1) /\ RenderEmphasis
    \/ Room(1) /\ RenderImage
    \/ \E link \in LinkTokens : Room(2) /\ RenderLink(link[1], link[2])
    \/ ReturnContainer
    \/ ReturnDocument
    \/ \E kind \in DOMAIN Unimplemented : RenderUnimplemented(kind)
    \/ \E language \in Languages, content \in {<<"foo">>} :
            Room(1) /\ RenderBlockCode(language, content)
    \/ \E d \in DirectiveTokens : Room(d[4]) /\ RenderDirective(d[1], d[2], d[3], d[4])
    \/ Room(1) /\ NestedParse
    \/ ReturnNestedParse
    \/ Room(1) /\ InlineText
    \/ ReturnInlineText
    \/ Room(1) /\ RunMakesTitle
    \/ RunReturns
    \/ RunReturnsInvalid
    \/ \E e \in {"DirectiveError", "AttributeError"} :
            (e = "DirectiveError" => Room(2)) /\ RunRaises(e)
    \/ HandleDirectiveError
    \/ \E known \in BOOLEAN : Room(IF known THEN 1 ELSE 2) /\ RenderRole(known)

Spec == Init /\ [][Next]_vars

\* directives of every name, with every argument text and content, at the
\* top level and in quotes; they run without a call of the renderer
DirectiveNames == {<<"{", "note", "}">>, <<"{", "image", "}">>, <<"{", "code", "}">>,
                   <<"{", "nosuch", "}">>}

NextA ==
    \/ \E language \in DirectiveNames, arg_text \in ArgTexts,
          content \in DirectiveContents, messages \in 0..2 :
            /\ Len(tree) + messages <= MaxANodes
            /\ RenderDirective(language, arg_text, content, messages)
    \/ RunReturns
    \/ RunReturnsInvalid
    \/ \E e \in {"DirectiveError", "AttributeError"} :
            (e = "DirectiveError" => Len(tree) + 2 <= MaxANodes) /\ RunRaises(e)
    \/ HandleDirectiveError
    \/ Len(tree) + 1 <= MaxANodes /\ RenderQuote
    \/ ReturnContainer

SpecA == Init /\ [][NextA]_vars

\* a note directive and the paragraphs and headings of the text it hands to
\* nested_parse and inline_text
NextD ==
    \/ RenderDirective(<<"{", "note", "}">>, <<>>, <<"body">>, 0)
    \/ Len(tree) + 1 <= MaxDNodes /\ NestedParse
    \/ ReturnNestedParse
    \/ Len(tree) + 1 <= MaxDNodes /\ InlineText
    \/ ReturnInlineText
    \/ Len(tree) + 1 <= MaxDNodes /\ RunMakesTitle
    \/ RunReturns
    \/ Len(tree) + 2 <= MaxDNodes /\ RenderHeading(1)
    \/ HeadingAddSection
    \/ ReturnHeading
    \/ Len(tree) + 1 <= MaxDNodes /\ RenderParagraph
    \/ Len(tree) + 1 <= MaxDNodes /\ RenderRawText(<<"A">>)
    \/ ReturnContainer

SpecD == Init /\ [][NextD]_vars

\* the links of one paragraph, rendered by a renderer made with or without
\* known_url_schemes in its config
LinkConfigs == {{}, {"http"}}

LinkTargets == Targets \cup {<<"ftp", ":", "//example.com">>,
                             <<"http", ":", "//example.com", "#", "frag">>}

\* the Link tokens rendered by it: <<target, title>>
ConfiguredLinkTokens == (LinkTargets \X {<<>>}) \cup {<<(<<"./page">>), (<<"t">>)>>}

InitL ==
    /\ tree = <<Node("document", 0, EmptyText)>>
    /\ \E config \in LinkConfigs : rs = <<Enter(NewRenderer(0, config))>>
    /\ stack = <<Frame("document", "block", 0, 0, 0)>>
    /\ exc = "none"

NextL ==
    \/ Len(tree) + 1 <= MaxLNodes /\ RenderParagraph
    \/ \E link \in ConfiguredLinkTokens :
            Len(tree) + 2 <= MaxLNodes /\ RenderLink(link[1], link[2])
    \/ Len(tree) + 1 <= MaxLNodes /\ RenderRawText(<<"A">>)
    \/ ReturnContainer

SpecL == InitL /\ [][NextL]_vars

\* headings with text, plain and strong, rendered by one renderer
NextT ==
    \/ \E level \in 1..2 : Len(tree) + 2 <= MaxTNodes /\ RenderHeading(level)
    \/ HeadingAddSection
    \/ ReturnHeading
    \/ \E content \in Contents : Len(tree) + 1 <= MaxTNodes /\ RenderRawText(content)
    \/ Len(tree) + 1 <= MaxTNodes /\ RenderStrong
    \/ ReturnContainer

SpecT == Init /\ [][NextT]_vars

\* a heading whose children are trees of the inline tokens that have a
\* handler
NextI ==
    \/ Len(tree) + 2 <= MaxINodes /\ RenderHeading(1)
    \/ HeadingAddSection
    \/ ReturnHeading
    \/ Len(tree) + 1 <= MaxINodes /\ RenderRawText(<<"A">>)
    \/ Len(tree) + 1 <= MaxINodes /\ RenderEscapeSequence
    \/ Len(tree) + 1 <= MaxINodes /\ RenderLineBreak
    \/ Len(tree) + 1 <= MaxINodes /\ RenderInlineCode
    \/ Len(tree) + 1 <= MaxINodes /\ RenderMath(<<"$", "A", "$">>)
    \/ Len(tree) + 1 <= MaxINodes /\ RenderStrong
    \/ Len(tree) + 1 <= MaxINodes /\ RenderEmphasis
    \/ Len(tree) + 1 <= MaxINodes /\ RenderImage
    \/ \E destination \in {<<"./page">>, <<"http", ":", "//example.com">>} :
            Len(tree) + 2 <= MaxINodes /\ RenderLink(destination, <<>>)
    \/ \E known \in BOOLEAN : Len(tree) + 2 <= MaxINodes /\ RenderRole(known)
    \/ ReturnContainer

SpecI == Init /\ [][NextI]_vars

\* block code of every language, with whole and with half directive
\* markers, at the top level and in quotes
BlockLanguages == Languages \cup {<<"{">>, <<"{", "}">>, <<"{", "note">>, <<"note", "}">>}

NextB ==
    \/ \E language \in BlockLanguages :
            Len(tree) + 1 <= MaxBNodes /\ RenderBlockCode(language, <<"foo">>)
    \/ \E language \in BlockLanguages, messages \in {0, 1} :
            /\ Len(tree) + messages <= MaxBNodes
            /\ RenderDirective(language, <<>>, <<"foo">>, messages)
    \/ RunReturns
    \/ Len(tree) + 1 <= MaxBNodes /\ RenderQuote
    \/ ReturnContainer

SpecB == Init /\ [][NextB]_vars

\* a document rendered with a configuration: by MystParser.parse, whose
\* self.config holds known_url_schemes or not, in its with statement (the
\* renderer is made without a config), or by a renderer made with that
\* config as in the tests; with links at the top level and in the text a
\* directive hands to nested_parse and inline_text
InitP ==
    /\ tree = <<Node("document", 0, EmptyText)>>
    /\ exc = "none"
    /\ \E config \in LinkConfigs :
        \/ /\ rs = <<Enter(NewRenderer(0, {}))>>
           /\ stack = <<[Frame("parse", "parse", 0, 0, 0) EXCEPT !.config = config],
                        Frame("document", "block", 0, 0, 0)>>
        \/ /\ rs = <<Enter(NewRenderer(0, config))>>
           /\ stack = <<Frame("document", "block", 0, 0, 0)>>

NextP ==
    \/ Len(tree) + 1 <= MaxPNodes /\ RenderParagraph
    \/ \E link \in ConfiguredLinkTokens :
            Len(tree) + 2 <= MaxPNodes /\ RenderLink(link[1], link[2])
    \/ ReturnContainer
    \/ ReturnDocument
    \/ ReturnParse
    \/ RenderUnimplemented("table")
    \/ RenderDirective(<<"{", "note", "}">>, <<>>, <<"body">>, 0)
    \/ Len(tree) + 1 <= MaxPNodes /\ NestedParse
    \/ ReturnNestedParse
    \/ Len(tree) + 1 <= MaxPNodes /\ InlineText
    \/ ReturnInlineText
    \/ RunReturns

SpecP == InitP /\ [][NextP]_vars
\* ----------------------------------------------------------- properties
Nodes == 1..Len(tree)
Sections == {n \in Nodes : tree[n].kind = "section"}

\* a step in which render_heading has made a section: its node is the last
\* of the two nodes the step makes
SectionAdded ==
    /\ Len(tree') = Len(tree) + 2
    /\ tree'[Len(tree) + 2].kind = "section"

\* C1: for every sequence of headings rendered by one renderer, the parent
\* of every section is the document or a section of a strictly smaller
\* level.
C1_SectionParentHasSmallerLevel ==
    \A n \in Sections :
        LET p == tree[n].parent
        IN  \/ p = Document
            \/ /\ p \in Sections
               /\ tree[p].level < tree[n].level

\* the headings 1, 3, 2 have been rendered: the sections of levels 3 and 2
\* are both under the section of level 1
C1_Witness ==
    \E a, b, c \in Sections :
        /\ a < b /\ b < c
        /\ tree[a].level = 1 /\ tree[b].level = 3 /\ tree[c].level = 2
        /\ tree[a].parent = Document
        /\ tree[b].parent = a /\ tree[c].parent = a

\* C2: in every state the section stack of every renderer holds the
\* document at key 0, and the node at each key is a child of the node at
\* the next smaller key.
C2_SectionStackIsNestedChain ==
    \A r \in 1..Len(rs) :
        LET l2e == rs[r].level_to_elem
        IN  /\ 0 \in DOMAIN l2e
            /\ l2e[0] = Document
            /\ \A a, b \in DOMAIN l2e :
                (a < b /\ ~\E k \in DOMAIN l2e : a < k /\ k < b) =>
                    /\ tree[l2e[b]].parent = l2e[a]
                    /\ \E i \in 1..Len(tree[l2e[a]].children) :
                            tree[l2e[a]].children[i] = l2e[b]

\* a renderer made by nested_parse has two sections open while the
\* top-level renderer has none
C2_Witness ==
    /\ Len(rs) = 2
    /\ Cardinality(DOMAIN rs[2].level_to_elem) = 3
    /\ DOMAIN rs[1].level_to_elem = {0}
    /\ tree[rs[2].current_node].kind = "section"

\* C3: _add_section always finds a parent, appends the new section as the
\* last child of the stack entry with the largest key below the level, and
\* leaves the stack restricted to the keys below the level, plus the new
\* section at the level.
C3_AddSection ==
    [][SectionAdded =>
        LET old == rs[Top].level_to_elem
            new == rs'[Top].level_to_elem
            section == Len(tree) + 2
            level == tree'[section].level
            below == {k \in DOMAIN old : k < level}
        IN  /\ below # {}
            /\ LET p == old[Max(below)]
               IN  /\ tree'[p].children = Append(tree[p].children, section)
                   /\ tree'[section].parent = p
            /\ DOMAIN new = below \cup {level}
            /\ new[level] = section
            /\ \A k \in below : new[k] = old[k]]_vars

\* after the headings 1, 2, 3 a heading of level 2 has closed the sections
\* of levels 2 and 3
C3_Witness ==
    \E a, b, c, d \in Sections :
        /\ a < b /\ b < c /\ c < d
        /\ tree[a].level = 1 /\ tree[b].level = 2
        /\ tree[c].level = 3 /\ tree[d].level = 2
        /\ rs[1].level_to_elem = [k \in {0, 1, 2} |->
                                    IF k = 0 THEN Document ELSE IF k = 1 THEN a ELSE d]

\* the last child of node p
LastChild(t, p) == t[p].children[Len(t[p].children)]

\* C4: a heading that follows a heading of the same level with nothing in
\* between makes a section that is the next sibling of the first one, under
\* the same parent and not inside the first; and on entering render_heading
\* an insertion point that is the section registered at the heading's level
\* moves to that section's parent.
C4_SameLevelHeadingsAreSiblings ==
    [][/\ (/\ In("block")
           /\ Len(stack') = Len(stack) + 1
           /\ stack'[Len(stack')].op = "heading"
           /\ tree[cur].kind = "section"
           /\ IsSectionLevel(rs[Top].level_to_elem, stack'[Len(stack')].level, cur))
          => rs'[Top].current_node = tree[cur].parent
       /\ (/\ SectionAdded
           /\ tree'[Len(tree) + 2].level \in DOMAIN rs[Top].level_to_elem
           /\ LET first == rs[Top].level_to_elem[tree'[Len(tree) + 2].level]
              IN  /\ Len(tree[first].children) = 1
                  /\ LastChild(tree, tree[first].parent) = first)
          => LET second == Len(tree) + 2
                 first == rs[Top].level_to_elem[tree'[second].level]
                 parent == tree[first].parent
             IN  /\ tree'[second].parent = parent
                 /\ tree'[parent].children = Append(tree[parent].children, second)
                 /\ ~IsUnder(tree', second, first)]_vars

\* two headings of level 2 have followed a heading of level 1: the two
\* sections of level 2 are neighbours under the section of level 1
C4_Witness ==
    \E a, b, c \in Sections :
        /\ tree[a].level = 1 /\ tree[b].level = 2 /\ tree[c].level = 2
        /\ tree[a].children = <<a - 1, b, c>>
        /\ Len(tree[b].children) = 1

\* C5 as stated: the sections that share a parent were all made by headings
\* of the same level.
C5_SiblingSectionsHaveSameLevel ==
    \A a, b \in Sections :
        tree[a].parent = tree[b].parent => tree[a].level = tree[b].level

\* C5: for every sequence of headings rendered by one renderer, of two
\* sections that share a parent the later one never has a greater level
\* than the earlier one (the levels 3 then 1 give two sibling sections of
\* levels 3 and 1).
C5_SiblingSectionLevelsNeverIncrease ==
    \A a, b \in Sections :
        (a < b /\ tree[a].parent = tree[b].parent) => tree[a].level >= tree[b].level

\* the headings 3, 1 have been rendered: both sections are children of the
\* document
C5_Witness ==
    \E a, b \in Sections :
        /\ a < b
        /\ tree[a].level = 3 /\ tree[b].level = 1
        /\ tree[a].parent = Document /\ tree[b].parent = Document
\* the calls of nested_parse and inline_text in progress, outermost first;
\* the renderer made by the i-th of them is rs[i + 1]
RECURSIVE NestedCalls(_)
NestedCalls(st) ==
    IF st = <<>> THEN <<>>
    ELSE LET rest == NestedCalls(SubSeq(st, 1, Len(st) - 1))
             f == st[Len(st)]
         IN  IF f.op \in {"nested_parse", "inline_text"} THEN Append(rest, f) ELSE rest

\* C6 as stated: the insertion point of every renderer is reachable from the
\* document through child links.
C6_InsertionPointInDocument ==
    \A r \in 1..Len(rs) : Reachable(tree, Document, rs[r].current_node)

\* C6: the insertion point of the top-level renderer is always reachable
\* from the document through child links; the insertion point of a renderer
\* made by nested_parse or inline_text is reachable from the document or
\* from the node that renderer was made with (the directive's node, the
\* scratch paragraph), which need not be in the document.
C6_InsertionPointInDocumentOrTarget ==
    /\ Reachable(tree, Document, rs[1].current_node)
    /\ \A r \in 2..Len(rs) :
        \/ Reachable(tree, Document, rs[r].current_node)
        \/ Reachable(tree, NestedCalls(stack)[r - 1].node, rs[r].current_node)

\* inside a quote a directive has called inline_text, and the renderer made
\* for it is in a paragraph of the scratch paragraph, outside the document
C6_Witness ==
    /\ Len(rs) = 2
    /\ tree[rs[1].current_node].kind = "block_quote"
    /\ NestedCalls(stack)[1].op = "inline_text"
    /\ rs[2].current_node # NestedCalls(stack)[1].node
    /\ ~Reachable(tree, Document, rs[2].current_node)

\* a container handler returns
ContainerReturns ==
    /\ Running
    /\ TopFrame.op \in Containers
    /\ stack' = Pop
    /\ exc' = "none"

\* C7: when a container handler returns, the insertion point is the node
\* it was at the call, exactly one new node has been appended to that node,
\* as its last child, and every node made since the call that is in the
\* document is inside that new node.
C7_ContainerKeepsChildrenInside ==
    [][ContainerReturns =>
        LET f == TopFrame
            made == f.node..Len(tree)
            appended == {i \in 1..Len(tree[f.saved].children) :
                            tree[f.saved].children[i] \in made}
        IN  /\ rs'[Top].current_node = f.saved
            /\ Cardinality(appended) = 1
            /\ LastChild(tree, f.saved) \in made
            /\ \A n \in made :
                IsUnder(tree, n, Document) => IsUnder(tree, n, LastChild(tree, f.saved))]_vars

\* a leaf handler of C8 is called
LeafRendered ==
    \/ RenderThematicBreak
    \/ \E content \in Contents : RenderRawText(content)
    \/ RenderEscapeSequence
    \/ RenderLineBreak

\* C8: a leaf handler (raw text, escape sequence, line break, thematic
\* break) appends one node without children to the insertion point and
\* changes nothing else; the node of a raw text holds the token's content
\* unchanged.
C8_LeafAppendsOneNode ==
    [][LeafRendered =>
        LET n == Len(tree) + 1
        IN  /\ Len(tree') = n
            /\ tree'[n].children = <<>>
            /\ tree'[n].parent = cur
            /\ tree'[cur] = [tree[cur] EXCEPT !.children = Append(@, n)]
            /\ \A m \in Nodes \ {cur} : tree'[m] = tree[m]
            /\ rs' = rs /\ stack' = stack /\ exc' = exc
            /\ \A content \in Contents :
                RenderRawText(content) =>
                    tree'[n].kind = "Text" /\ tree'[n].text = content]_vars

\* the raw text "john & Jane" is the only child of a strong node in a
\* paragraph
C8_Witness ==
    \E n \in Nodes :
        /\ tree[n].kind = "Text"
        /\ tree[n].text = <<"john", " ", "&", " ", "Jane">>
        /\ tree[n].parent # 0
        /\ tree[tree[n].parent].kind = "strong"
        /\ tree[tree[n].parent].children = <<n>>
        /\ rs[1].current_node = tree[n].parent

\* C9: when a table, table row, table cell, autolink or strikethrough token
\* is rendered, at any depth, NotImplementedError leaves the top-level
\* render call: no handler catches it and nothing is rendered after it.
C9_UnimplementedPropagates ==
    [][(\E kind \in DOMAIN Unimplemented : RenderUnimplemented(kind)) =>
        /\ exc' = "NotImplementedError"
        /\ stack' = <<>>
        /\ Len(rs') = 1
        /\ tree' = tree]_vars

\* NotImplementedError has ended the render from inside the text a
\* directive in a quote handed to nested_parse: the directive's node never
\* got into the document
C9_Witness ==
    /\ exc = "NotImplementedError"
    /\ stack = <<>>
    /\ \E n, q \in Nodes :
        /\ tree[n].kind = "admonition" /\ tree[n].parent = 0
        /\ tree[q].kind = "block_quote"

\* nested_parse returns
NestedParseReturns ==
    /\ Running
    /\ TopFrame.op = "nested_parse"
    /\ stack' = Pop
    /\ exc' = "none"

\* C10: when nested_parse returns, every node made while it rendered the
\* text that is in the document is inside the target node (sections made by
\* headings of the text included), and the calling renderer's insertion
\* point and section stack are as before the call.
C10_NestedParseRendersIntoTarget ==
    [][NestedParseReturns =>
        /\ \A n \in (TopFrame.node + 1)..Len(tree) :
            IsUnder(tree, n, Document) => IsUnder(tree, n, TopFrame.node)
        /\ rs' = SubSeq(rs, 1, Len(rs) - 1)]_vars

\* C11: when inline_text returns, no node made since its call (the scratch
\* paragraph included) is in the document, and the nodes it returns are the
\* children of the first block rendered into the scratch paragraph, none
\* when nothing was rendered.
C11_InlineTextLeavesDocumentAlone ==
    [][ReturnInlineText =>
        /\ \A n \in TopFrame.node..Len(tree) : ~IsUnder(tree, n, Document)
        /\ stack'[Len(stack')].texts =
                IF Len(tree) > TopFrame.node THEN tree[TopFrame.node + 1].children ELSE <<>>]_vars

\* the places of node n in the child lists: <<p, i>> when n is the i-th
\* child of p
Places(t, n) == {pi \in (1..Len(t)) \X (1..Len(t)) :
                    pi[2] <= Len(t[pi[1]].children) /\ t[pi[1]].children[pi[2]] = n}

\* C12: the nodes are a strict tree at every moment of a render, directives
\* attaching the nodes of nested_parse and inline_text included: a node
\* other than the document is in the child list of its parent, once, and in
\* no other child list (a node not yet appended in none), and a parent that
\* has been set is never changed.
C12_StrictTree ==
    /\ [](\A n \in Nodes \ {Document} :
            /\ Cardinality(Places(tree, n)) <= 1
            /\ \A pi \in Places(tree, n) : tree[n].parent = pi[1]
            /\ tree[n].parent # 0 => Places(tree, n) # {})
    /\ [][\A n \in Nodes : tree[n].parent # 0 => tree'[n].parent = tree[n].parent]_vars

\* the number of directives running
Instances(st) == Cardinality({i \in 1..Len(st) : st[i].op = "run"})

\* C13: render_directive called for a directive that resolves, with fewer
\* arguments than its required_arguments, makes no instance of the directive
\* and does not call its run: a step after which one more directive runs is
\* not such a call.
C13_TooFewArgumentsNeverRun ==
    [][Instances(stack') > Instances(stack) =>
        \A language \in DirectiveNames, arg_text \in ArgTexts,
           content \in DirectiveContents, messages \in 0..2 :
            (/\ Resolves(SubSeq(language, 2, Len(language) - 1))
             /\ Len(SplitMax(arg_text, -1)) < Registry[language[2]].required)
            => ~RenderDirective(language, arg_text, content, messages)]_vars

\* an image directive without its argument, in a quote, has ended the render
\* with the RuntimeError of parse_directive_arguments; no directive runs
C13_Witness ==
    /\ exc = TooFew
    /\ Instances(stack) = 0
    /\ \E q \in Nodes : tree[q].kind = "block_quote"

\* the arguments of a directive of this class are too few or too many
ArityViolation(directive, arg_text) ==
    LET n == Len(SplitMax(arg_text, -1))
    IN  \/ n < directive.required
        \/ n > directive.required + directive.optional /\ ~directive.final_argument_whitespace

\* C14: render_directive called for a directive that resolves, with too few
\* arguments, or with too many when the last argument may not hold
\* whitespace, raises nothing: it appends one diagnostic node to the
\* insertion point, runs no directive, and the render goes on with the
\* insertion point where it was.
C14_ArityViolationIsReported ==
    [][\A language \in DirectiveNames, arg_text \in ArgTexts,
          content \in DirectiveContents, messages \in 0..2 :
            (/\ ReadOptions(content).error = "none"
             /\ Resolves(SubSeq(language, 2, Len(language) - 1))
             /\ ArityViolation(Registry[language[2]], arg_text)
             /\ RenderDirective(language, arg_text, content, messages))
            => /\ exc' = "none"
               /\ stack' = stack
               /\ rs' = rs
               /\ Len(tree') = Len(tree) + 1
               /\ tree'[Len(tree')].kind = "system_message"
               /\ tree'[cur].children = Append(tree[cur].children, Len(tree'))]_vars

\* C15: when the content of a directive starts with a fence and its options
\* block does not load as a mapping (safe_load raises an error of any kind,
\* or returns something that is not a mapping), render_directive raises
\* nothing for it: a directive that resolves and has its arguments is
\* instantiated and run with empty options.
C15_OptionsFailureIsRecovered ==
    [][\A language \in DirectiveNames, arg_text \in ArgTexts,
          content \in DirectiveContents, messages \in 0..2 :
            (/\ HasOptionsBlock(content)
             /\ SafeLoad(SplitOptions(content).yaml_block) \in {"scalar", "ParserError", "ScannerError"}
             /\ Resolves(SubSeq(language, 2, Len(language) - 1))
             /\ ~ArityViolation(Registry[language[2]], arg_text)
             /\ RenderDirective(language, arg_text, content, messages))
            => /\ exc' = "none"
               /\ Instances(stack') = Instances(stack) + 1
               /\ stack'[Len(stack')].inst.options = "empty"]_vars

\* C16: render_directive called with a name the registry does not resolve
\* raises nothing, appends the registry's messages, all of them and nothing
\* else, in their order, to the insertion point, runs no directive and
\* leaves the insertion point, the section stack and the other nodes as they
\* were.
C16_UnknownDirectiveLeavesMessages ==
    [][In("block") =>
       \A language \in DirectiveNames, arg_text \in ArgTexts,
          content \in DirectiveContents, messages \in 0..2 :
            (/\ ReadOptions(content).error = "none"
             /\ ~Resolves(SubSeq(language, 2, Len(language) - 1))
             /\ RenderDirective(language, arg_text, content, messages))
            => /\ exc' = "none"
               /\ stack' = stack
               /\ rs' = rs
               /\ Len(tree') = Len(tree) + messages
               /\ tree'[cur].children =
                    tree[cur].children \o [i \in 1..messages |-> Len(tree) + i]
               /\ \A i \in 1..messages :
                    /\ tree'[Len(tree) + i].kind = "system_message"
                    /\ tree'[Len(tree) + i].text = <<"msg", ToString(i)>>
                    /\ tree'[Len(tree) + i].parent = cur
                    /\ tree'[Len(tree) + i].children = <<>>
               /\ \A n \in Nodes \ {cur} : tree'[n] = tree[n]]_vars

\* an unknown directive in a quote has left the two messages of the
\* registry in the quote, and the render goes on
C16_Witness ==
    /\ exc = "none"
    /\ Running
    /\ Instances(stack) = 0
    /\ \E q \in Nodes :
        /\ tree[q].kind = "block_quote"
        /\ Len(tree[q].children) = 2
        /\ tree[tree[q].children[1]].text = <<"msg", "1">>
        /\ tree[tree[q].children[2]].text = <<"msg", "2">>

\* C17: a DirectiveError raised by run does not leave render_directive,
\* which appends to the insertion point one system message holding one
\* literal block with the content of the directive (what follows its options
\* block) and returns; an AttributeError raised by run ends the render at
\* its caller, with nothing appended.
C17_DirectiveErrorIsReported ==
    [][/\ (In("run") /\ exc' = "DirectiveError")
            => stack' = stack /\ rs' = rs /\ tree' = tree
       /\ (exc = "DirectiveError" /\ exc' = "none")
            => LET msg_node == Len(tree) + 1
                   literal == Len(tree) + 2
               IN  /\ stack' = Pop
                   /\ rs' = rs
                   /\ Len(tree') = literal
                   /\ tree'[cur].children = Append(tree[cur].children, msg_node)
                   /\ tree'[msg_node].kind = "system_message"
                   /\ tree'[msg_node].children = <<literal>>
                   /\ tree'[literal].kind = "literal_block"
                   /\ tree'[literal].text = TopFrame.inst.content
                   /\ tree'[literal].children = <<>>
                   /\ \A n \in Nodes \ {cur} : tree'[n] = tree[n]
       /\ (In("run") /\ exc' = "AttributeError")
            => stack' = <<>> /\ tree' = tree]_vars

\* a directive with an options block, in a quote, has raised DirectiveError:
\* the quote holds the message with the content after the options block, and
\* the render goes on
C17_Witness ==
    /\ exc = "none"
    /\ Running
    /\ \E q, m, l \in Nodes :
        /\ tree[q].kind = "block_quote"
        /\ tree[q].children = <<m>>
        /\ tree[m].kind = "system_message"
        /\ tree[m].children = <<l>>
        /\ tree[l].text = <<"", "body">>

C19_ResultIsAppended ==
    [][(In("run") /\ stack' = Pop /\ exc' = "none")
        => /\ rs' = rs
           /\ tree'[cur].children =
                SubSeq(tree[cur].children, 1, TopFrame.before) \o TopFrame.res]_vars

\* C20: render_link puts the reference into a pending_xref of reftype "any",
\* appended to the insertion point, exactly when the destination has no
\* fragment and has no scheme or, with known_url_schemes configured, a
\* scheme that is not one of them; otherwise the reference itself is
\* appended. The insertion point is the reference while the children are
\* rendered, so that they are inside it, and is restored when render_link
\* returns.
C20_LinkIsWrappedWhenNotExternal ==
    [][/\ \A link \in ConfiguredLinkTokens :
            RenderLink(link[1], link[2])
            => LET destination == link[1]
                   config == rs[Top].config
                   ref == stack'[Len(stack')].node
                   wrapped == tree'[ref].parent # cur
                   appended == LastChild(tree', cur)
               IN  /\ wrapped <=>
                        /\ UrlFragment(destination) = <<>>
                        /\ \/ UrlScheme(destination) = ""
                           \/ config # {} /\ UrlScheme(destination) \notin config
                   /\ tree'[ref].kind = "reference"
                   /\ <<"refuri", destination>> \in tree'[ref].attr
                   /\ Len(tree'[cur].children) = Len(tree[cur].children) + 1
                   /\ IF wrapped
                      THEN /\ tree'[appended].kind = "pending_xref"
                           /\ <<"reftype", <<"any">>>> \in tree'[appended].attr
                           /\ tree'[appended].children = <<ref>>
                           /\ tree'[ref].parent = appended
                      ELSE appended = ref
                   /\ rs'[Top].current_node = ref
       /\ (Running /\ TopFrame.op = "link" /\ stack' = Pop)
            => /\ rs'[Top].current_node = TopFrame.saved
               /\ \A n \in (TopFrame.node + 1)..Len(tree) :
                    \/ IsUnder(tree, n, TopFrame.node)
                    \/ tree[n].kind = "pending_xref" /\ tree[n].children = <<TopFrame.node>>]_vars

\* a renderer without known_url_schemes has rendered, in one paragraph, a
\* link to http://example.com, appended as it is, with its text inside, and
\* a link to ./page, wrapped; the insertion point is the paragraph again
C20_Witness ==
    /\ rs[1].config = {}
    /\ \E p, a, t, w, b \in Nodes :
        /\ tree[p].kind = "paragraph"
        /\ cur = p
        /\ tree[p].children = <<a, w>>
        /\ tree[a].kind = "reference"
        /\ <<"refuri", <<"http", ":", "//example.com">>>> \in tree[a].attr
        /\ tree[a].children = <<t>>
        /\ tree[t].kind = "Text"
        /\ tree[w].kind = "pending_xref"
        /\ tree[w].children = <<b>>
        /\ <<"refuri", <<"./page">>>> \in tree[b].attr

\* the configuration a document is rendered with: the config of
\* MystParser.parse, or of the top-level renderer made without a parser
Configured == IF stack[1].op = "parse" THEN stack[1].config ELSE rs[1].config

\* C21: every link of a document, rendered through MystParser.parse, or by
\* a renderer made by nested_parse or inline_text, is wrapped or not as
\* render_link of a top-level renderer made with the document's
\* configuration decides for its destination.
C21_LinksUseConfiguredSchemes ==
    [][In("inline") =>
       \A link \in ConfiguredLinkTokens :
            RenderLink(link[1], link[2])
            => LET ref == stack'[Len(stack')].node
               IN  tree'[ref].parent # cur <=> IsCrossReference(Configured, link[1])]_vars

\* C24: a renderer that renders, the top-level one or one made by
\* nested_parse or inline_text, has been entered and not yet exited; and
\* when MystParser.parse ends, by a return or by an exception of the
\* render, its renderer has been exited.
C24_RenderersAreScoped ==
    /\ [](Running => \A r \in 1..Len(rs) : rs[r].scope = "entered")
    /\ [][(stack # <<>> /\ stack[1].op = "parse" /\ stack' = <<>>)
            => rs'[1].scope = "exited"]_vars

\* C22: render_role for a name that is no role raises nothing and leaves
\* the insertion point where it is; it appends to it one node, a
\* problematic node holding the raw text of the role, that refers to the
\* error message made for it, which refers back to the problematic node.
C22_UnknownRoleIsProblematic ==
    [][RenderRole(FALSE) =>
        LET problematic == LastChild(tree', cur)
            message == tree'[problematic].ref
        IN  /\ exc' = "none"
            /\ rs' = rs
            /\ stack' = stack
            /\ tree'[cur].children = Append(tree[cur].children, problematic)
            /\ problematic \notin Nodes
            /\ tree'[problematic].kind = "problematic"
            /\ tree'[problematic].text = <<":", "name", ":", "'", "A", "'">>
            /\ message \in 1..Len(tree') /\ message \notin Nodes
            /\ tree'[message].kind = "system_message"
            /\ tree'[message].ref = problematic
            /\ \A n \in Nodes \ {cur} : tree'[n] = tree[n]]_vars

\* a paragraph holds the problematic node of an unknown role, which the
\* error message refers back to, and is still the insertion point
C22_Witness ==
    /\ Running
    /\ \E p, b, m \in Nodes :
        /\ tree[p].kind = "paragraph"
        /\ cur = p
        /\ tree[p].children = <<b>>
        /\ tree[b].kind = "problematic"
        /\ tree[b].ref = m
        /\ tree[m].kind = "system_message"
        /\ tree[m].ref = b

\* C23: render_block_code renders a directive only for a language that
\* starts with "{" and ends with "}"; for every other language, the empty
\* one included, it appends to the insertion point one literal_block with
\* that language as its language attribute and the code as its text, and
\* does nothing else.
C23_BlockCodeIsDirectiveByMarker ==
    [][In("block") =>
       \A language \in BlockLanguages :
        LET marked == /\ language # <<>>
                      /\ language[1] = "{"
                      /\ language[Len(language)] = "}"
            literal == Len(tree) + 1
        IN  /\ RenderBlockCode(language, <<"foo">>)
                => /\ ~marked
                   /\ exc' = "none" /\ rs' = rs /\ stack' = stack
                   /\ Len(tree') = literal
                   /\ tree'[cur].children = Append(tree[cur].children, literal)
                   /\ tree'[literal].kind = "literal_block"
                   /\ tree'[literal].attr = {<<"language", language>>}
                   /\ tree'[literal].text = <<"foo">>
                   /\ tree'[literal].children = <<>>
                   /\ \A n \in Nodes \ {cur} : tree'[n] = tree[n]
            /\ (\E messages \in {0, 1} : RenderDirective(language, <<>>, <<"foo">>, messages))
                => marked]_vars

\* a quote holds the literal blocks of a code without language and of a
\* code whose language has the opening brace only
C23_Witness ==
    /\ Running
    /\ \E q, a, b \in Nodes :
        /\ tree[q].kind = "block_quote"
        /\ tree[q].children = <<a, b>>
        /\ tree[a].kind = "literal_block" /\ tree[a].attr = {<<"language", <<>>>>}
        /\ tree[b].kind = "literal_block" /\ tree[b].attr = {<<"language", <<"{", "note">>>>}
        /\ tree[b].text = <<"foo">>

\* render_heading returns
HeadingReturns ==
    /\ In("inline")
    /\ TopFrame.op = "heading"
    /\ stack' = Pop
    /\ exc' = "none"

C26_TopLevelBlocksGoToLastSection ==
    (/\ Running
     /\ Len(stack) = 1
     /\ TopFrame.op = "document"
     /\ DOMAIN rs[1].level_to_elem # {0})
    => rs[1].current_node = rs[1].level_to_elem[Max(DOMAIN rs[1].level_to_elem)]

\* C27: when the children of a heading, trees of inline tokens, have been
\* rendered, the insertion point is the title made for the heading, so the
\* assertion of render_heading holds and no AssertionError is raised.
C27_HeadingAssertionHolds ==
    /\ exc # "AssertionError"
    /\ (Running /\ TopFrame.op = "heading" /\ TopFrame.ctx = "inline")
        => /\ cur = TopFrame.node
           /\ tree[cur].kind = "title"

\* the children of a heading have been rendered, a strong holding a link
\* to ./page with a text, and the insertion point is the title
C27_Witness ==
    /\ Running
    /\ TopFrame.op = "heading"
    /\ cur = TopFrame.node
    /\ \E s, w, l, t \in Nodes :
        /\ tree[cur].children = <<s>>
        /\ tree[s].kind = "strong" /\ tree[s].children = <<w>>
        /\ tree[w].kind = "pending_xref" /\ tree[w].children = <<l>>
        /\ tree[l].kind = "reference" /\ tree[l].children = <<t>>
        /\ tree[t].kind = "Text"

\* C28: the arguments parse_directive_arguments returned for a directive
\* that runs are at least required_arguments and at most required_arguments
\* + optional_arguments of its class.
C28_ArgumentCountWithinDeclaredBounds ==
    \A i \in 1..Len(stack) :
        stack[i].op = "run" =>
            LET directive == Registry[stack[i].inst.name]
                n == Len(stack[i].inst.arguments)
            IN  /\ directive.required <= n
                /\ n <= directive.required + directive.optional
====
